---- MODULE Spec2Model ----
(***************************************************************************)
(* Model of src/alloc.rs: RedisAlloc, a GlobalAlloc that forwards every    *)
(* request to the host's RedisModule_* function slots, rounding the size   *)
(* up to the layout's alignment, and aborts the process through            *)
(* allocation_free_panic when the slot it needs is None.                   *)
(***************************************************************************)
EXTENDS Integers, Sequences, FiniteSets, TLC

(* ------------------------------ bounds -------------------------------- *)

\* width of the native word (usize) in bits
W == 7
\* request sizes handed to the dispatcher are 0..MaxSize
MaxSize == 3
\* request alignments handed to the dispatcher are 2^0 .. 2^MaxAlignExp
MaxAlignExp == 2

(* ----------------------------- arithmetic ----------------------------- *)

RECURSIVE Pow2(_)
Pow2(n) == IF n = 0 THEN 1 ELSE 2 * Pow2(n - 1)

WordMod == Pow2(W)
WordMax == WordMod - 1
IsizeMax == Pow2(W - 1) - 1
Words == 0 .. WordMax

\* usize addition and subtraction as a build without overflow checks does them
WrapAdd(a, b) == (a + b) % WordMod
WrapSub(a, b) == (a - b + WordMod) % WordMod

RECURSIVE BitAndN(_, _, _)
BitAndN(a, b, n) ==
    IF n = 0 THEN 0
    ELSE (a % 2) * (b % 2) + 2 * BitAndN(a \div 2, b \div 2, n - 1)

\* the operators & and ! on usize
BitAnd(a, b) == BitAndN(a, b, W)
BitNot(a) == WordMax - a

\* faulty variant: the mask is built from align instead of align - 1
calculate_size_bad_mask(size, align) ==
    BitAnd(WrapSub(WrapAdd(size, align), 1), BitNot(align))

\* faulty variant: the "- 1" of the round-up is forgotten
calculate_size_no_dec(size, align) ==
    BitAnd(WrapAdd(size, align), BitNot(WrapSub(align, 1)))

\* (layout.size() + layout.align() - 1) & (!(layout.align() - 1))
calculate_size(size, align) ==
    BitAnd(WrapSub(WrapAdd(size, align), 1), BitNot(WrapSub(align, 1)))

\* an arithmetic step of calculate_size leaves the range of usize, evaluated
\* left to right as the expression is: size + align, then - 1, and align - 1
calculate_size_overflows(size, align) ==
    \/ size + align > WordMax
    \/ WrapAdd(size, align) - 1 < 0
    \/ align - 1 < 0

\* every power of two a usize can hold
AllAligns == { Pow2(k) : k \in 0 .. (W - 1) }

(* ------------------------------- state -------------------------------- *)

Threads == {"t1", "t2"}
Callers == {"t1"}
Ptrs == {"p1", "p2"}
NULL == "null"
UNIT == "unit"
NoVal == "none"

SlotNames == {"RedisModule_Alloc", "RedisModule_Calloc",
              "RedisModule_Free", "RedisModule_Realloc"}

Sizes == 0 .. MaxSize
Aligns == { Pow2(k) : k \in 0 .. MaxAlignExp }

NoCall == [op |-> "none", ptr |-> NULL, size |-> 0, align |-> 1, new_size |-> 0]
CalcIdle == [phase |-> "off", size |-> 0, align |-> 1, checks |-> FALSE,
             result |-> 0, wrapped |-> FALSE]

VARIABLES
    RedisModule,   \* the four Option<fn> slots of crate::raw: TRUE = Some
    pc,            \* per thread: idle, host, returned, panic, wrote, aborted
    call,          \* per thread: the allocator call in progress or last made
    hostInv,       \* per thread: host functions invoked by that call, in order
    hostRes,       \* per thread: what the host function returned
    ret,           \* per thread: what the call returned to its caller
    writes,        \* per thread: write(2) calls on fd 2 made by that thread
    stderr,        \* complete copies of the message that reached fd 2
    terminated,    \* the process was aborted
    calc           \* one evaluation of calculate_size on arbitrary words

vars == <<RedisModule, pc, call, hostInv, hostRes, ret, writes, stderr,
          terminated, calc>>

dispatchVars == <<RedisModule, pc, call, hostInv, hostRes, ret, writes,
                  stderr, terminated>>

\* Layout's invariant: align is a power of two and size, rounded up to align,
\* does not exceed isize::MAX
LayoutOK(size, align) ==
    /\ align \in AllAligns
    /\ ((size + align - 1) \div align) * align <= IsizeMax

Quiet ==
    /\ pc = [t \in Threads |-> "idle"]
    /\ call = [t \in Threads |-> NoCall]
    /\ hostInv = [t \in Threads |-> <<>>]
    /\ hostRes = [t \in Threads |-> NoVal]
    /\ ret = [t \in Threads |-> NoVal]
    /\ writes = [t \in Threads |-> 0]
    /\ stderr = 0
    /\ terminated = FALSE

Init ==
    /\ RedisModule \in [SlotNames -> BOOLEAN]
    /\ Quiet
    /\ calc = CalcIdle

(* ----------------------------- dispatcher ----------------------------- *)

CanCall(t) == ~terminated /\ pc[t] \in {"idle", "returned"}

\* Some(f) => f(args): the host function is entered with args
InvokeHost(t, c, fn, args) ==
    /\ pc' = [pc EXCEPT ![t] = "host"]
    /\ call' = [call EXCEPT ![t] = c]
    /\ hostInv' = [hostInv EXCEPT ![t] = <<[fn |-> fn, args |-> args]>>]
    /\ hostRes' = [hostRes EXCEPT ![t] = NoVal]
    /\ ret' = [ret EXCEPT ![t] = NoVal]
    /\ UNCHANGED <<RedisModule, writes, stderr, terminated, calc>>

\* faulty variant: the message is not written before the abort
allocation_free_panic_no_write(t, c) ==
    /\ pc' = [pc EXCEPT ![t] = "wrote"]
    /\ call' = [call EXCEPT ![t] = c]
    /\ hostInv' = [hostInv EXCEPT ![t] = <<>>]
    /\ hostRes' = [hostRes EXCEPT ![t] = NoVal]
    /\ ret' = [ret EXCEPT ![t] = NoVal]
    /\ UNCHANGED <<RedisModule, writes, stderr, terminated, calc>>

\* None => allocation_free_panic(MESSAGE): the thread enters the function
allocation_free_panic(t, c) ==
    /\ pc' = [pc EXCEPT ![t] = "panic"]
    /\ call' = [call EXCEPT ![t] = c]
    /\ hostInv' = [hostInv EXCEPT ![t] = <<>>]
    /\ hostRes' = [hostRes EXCEPT ![t] = NoVal]
    /\ ret' = [ret EXCEPT ![t] = NoVal]
    /\ UNCHANGED <<RedisModule, writes, stderr, terminated, calc>>

\* faulty variant: the requested size is passed on without rounding
alloc_raw_size(t, size, align) ==
    /\ CanCall(t) /\ LayoutOK(size, align)
    /\ LET c == [NoCall EXCEPT !.op = "alloc", !.size = size, !.align = align]
       IN IF RedisModule["RedisModule_Alloc"]
          THEN InvokeHost(t, c, "RedisModule_Alloc", <<size>>)
          ELSE allocation_free_panic(t, c)

alloc(t, size, align) ==
    /\ CanCall(t) /\ LayoutOK(size, align)
    /\ LET c == [NoCall EXCEPT !.op = "alloc", !.size = size, !.align = align]
           sz == calculate_size(size, align)
       IN IF RedisModule["RedisModule_Alloc"]
          THEN InvokeHost(t, c, "RedisModule_Alloc", <<sz>>)
          ELSE allocation_free_panic(t, c)

\* faulty variant: count and element size are swapped
alloc_zeroed_swapped(t, size, align) ==
    /\ CanCall(t) /\ LayoutOK(size, align)
    /\ LET c == [NoCall EXCEPT !.op = "alloc_zeroed", !.size = size, !.align = align]
           sz == calculate_size(size, align)
       IN IF RedisModule["RedisModule_Calloc"]
          THEN InvokeHost(t, c, "RedisModule_Calloc", <<sz, 1>>)
          ELSE allocation_free_panic(t, c)

alloc_zeroed(t, size, align) ==
    /\ CanCall(t) /\ LayoutOK(size, align)
    /\ LET c == [NoCall EXCEPT !.op = "alloc_zeroed", !.size = size, !.align = align]
           sz == calculate_size(size, align)
       IN IF RedisModule["RedisModule_Calloc"]
          THEN InvokeHost(t, c, "RedisModule_Calloc", <<1, sz>>)
          ELSE allocation_free_panic(t, c)

\* faulty variant: the slot consulted is the allocate slot
dealloc_wrong_slot(t, ptr, size, align) ==
    /\ CanCall(t) /\ LayoutOK(size, align)
    /\ LET c == [NoCall EXCEPT !.op = "dealloc", !.ptr = ptr,
                               !.size = size, !.align = align]
       IN IF RedisModule["RedisModule_Alloc"]
          THEN InvokeHost(t, c, "RedisModule_Free", <<ptr>>)
          ELSE allocation_free_panic(t, c)

dealloc(t, ptr, size, align) ==
    /\ CanCall(t) /\ LayoutOK(size, align)
    /\ LET c == [NoCall EXCEPT !.op = "dealloc", !.ptr = ptr,
                               !.size = size, !.align = align]
       IN IF RedisModule["RedisModule_Free"]
          THEN InvokeHost(t, c, "RedisModule_Free", <<ptr>>)
          ELSE allocation_free_panic(t, c)

\* faulty variant: the size is rounded from the old layout's size
realloc_old_size(t, ptr, size, align, new_size) ==
    /\ CanCall(t) /\ LayoutOK(size, align) /\ LayoutOK(new_size, align)
    /\ LET c == [op |-> "realloc", ptr |-> ptr, size |-> size,
                 align |-> align, new_size |-> new_size]
       IN IF RedisModule["RedisModule_Realloc"]
          THEN InvokeHost(t, c, "RedisModule_Realloc",
                          <<ptr, calculate_size(size, align)>>)
          ELSE allocation_free_panic(t, c)

realloc(t, ptr, size, align, new_size) ==
    /\ CanCall(t) /\ LayoutOK(size, align) /\ LayoutOK(new_size, align)
    /\ LET c == [op |-> "realloc", ptr |-> ptr, size |-> size,
                 align |-> align, new_size |-> new_size]
       IN IF RedisModule["RedisModule_Realloc"]
          THEN InvokeHost(t, c, "RedisModule_Realloc",
                          <<ptr, calculate_size(new_size, align)>>)
          ELSE allocation_free_panic(t, c)

\* what a host function can hand back
HostResults(op) == IF op = "dealloc" THEN {UNIT} ELSE Ptrs \cup {NULL}

\* .cast(): *mut c_void to *mut u8, the address is kept
cast(p) == p

\* faulty variant: a failed realloc frees the original block
HostReturn_free_on_failure(t, r) ==
    /\ ~terminated /\ pc[t] = "host"
    /\ r \in HostResults(call[t].op)
    /\ pc' = [pc EXCEPT ![t] = "returned"]
    /\ hostRes' = [hostRes EXCEPT ![t] = r]
    /\ ret' = [ret EXCEPT ![t] = cast(r)]
    /\ hostInv' = [hostInv EXCEPT ![t] =
          IF r = NULL /\ call[t].op = "realloc"
          THEN Append(@, [fn |-> "RedisModule_Free", args |-> <<call[t].ptr>>])
          ELSE @]
    /\ UNCHANGED <<RedisModule, call, writes, stderr, terminated, calc>>

\* the host function returns r and the call returns it to its caller
HostReturn(t, r) ==
    /\ ~terminated /\ pc[t] = "host"
    /\ r \in HostResults(call[t].op)
    /\ pc' = [pc EXCEPT ![t] = "returned"]
    /\ hostRes' = [hostRes EXCEPT ![t] = r]
    /\ ret' = [ret EXCEPT ![t] = cast(r)]
    /\ UNCHANGED <<RedisModule, call, hostInv, writes, stderr, terminated, calc>>

\* faulty variant: a failed write is propagated and the call returns null
write_or_return(t, ok) ==
    /\ ~terminated /\ pc[t] = "panic"
    /\ pc' = [pc EXCEPT ![t] = IF ok THEN "wrote" ELSE "returned"]
    /\ ret' = [ret EXCEPT ![t] = IF ok THEN @ ELSE NULL]
    /\ writes' = [writes EXCEPT ![t] = @ + 1]
    /\ stderr' = stderr + (IF ok THEN 1 ELSE 0)
    /\ UNCHANGED <<RedisModule, call, hostInv, hostRes, terminated, calc>>

\* let _ = nix::unistd::write(stderr fd, message): the outcome is dropped
write(t, ok) ==
    /\ ~terminated /\ pc[t] = "panic"
    /\ pc' = [pc EXCEPT ![t] = "wrote"]
    /\ writes' = [writes EXCEPT ![t] = @ + 1]
    /\ stderr' = stderr + (IF ok THEN 1 ELSE 0)
    /\ UNCHANGED <<RedisModule, call, hostInv, hostRes, ret, terminated, calc>>

\* faulty variant: the function comes back to the dispatcher instead of aborting
abort_returns(t) ==
    /\ ~terminated /\ pc[t] = "wrote"
    /\ pc' = [pc EXCEPT ![t] = "returned"]
    /\ ret' = [ret EXCEPT ![t] = NULL]
    /\ UNCHANGED <<RedisModule, call, hostInv, hostRes, writes, stderr,
                   terminated, calc>>

\* std::process::abort(): the whole process ends, every thread with it
abort(t) ==
    /\ ~terminated /\ pc[t] = "wrote"
    /\ pc' = [pc EXCEPT ![t] = "aborted"]
    /\ terminated' = TRUE
    /\ UNCHANGED <<RedisModule, call, hostInv, hostRes, ret, writes, stderr, calc>>

\* one step of thread t, its requests drawn from sizes SS and alignments AA
Step(t, SS, AA) ==
    \/ \E s \in SS, a \in AA : alloc(t, s, a)
    \/ \E s \in SS, a \in AA : alloc_zeroed(t, s, a)
    \/ \E p \in Ptrs, s \in SS, a \in AA : dealloc(t, p, s, a)
    \/ \E p \in Ptrs, s \in SS, a \in AA, n \in SS : realloc(t, p, s, a, n)
    \/ \E r \in Ptrs \cup {NULL, UNIT} : HostReturn(t, r)
    \/ \E ok \in BOOLEAN : write(t, ok)
    \/ abort(t)

\* one caller, every request within the bounds
Next == \E t \in Callers : Step(t, Sizes, Aligns)

Spec == Init /\ [][Next]_vars

\* concurrent callers, each issuing the largest request
NextThreads == \E t \in Threads : Step(t, {MaxSize}, {Pow2(MaxAlignExp)})

\* allocation_free_panic is straight-line code: once entered, the write
\* returns and abort is reached
FairSpec ==
    /\ Init /\ [][NextThreads]_vars
    /\ \A t \in Threads : WF_vars(\E ok \in BOOLEAN : write(t, ok))
    /\ \A t \in Threads : WF_vars(abort(t))

(* ------------------- calculate_size on arbitrary words ---------------- *)

InitCalc ==
    /\ RedisModule = [s \in SlotNames |-> TRUE]
    /\ Quiet
    /\ calc \in [phase : {"input"}, size : Words, align : AllAligns,
                 checks : BOOLEAN, result : {0}, wrapped : {FALSE}]

\* the expression is evaluated to a value: always in a build without
\* overflow checks, and in a build with them when no step overflows
CalcValue ==
    /\ calc.phase = "input"
    /\ ~calc.checks \/ ~calculate_size_overflows(calc.size, calc.align)
    /\ calc' = [calc EXCEPT !.phase = "done",
                            !.result = calculate_size(calc.size, calc.align),
                            !.wrapped = calculate_size_overflows(calc.size, calc.align)]
    /\ UNCHANGED dispatchVars

\* a build with overflow checks panics at the step that overflows
CalcOverflowPanic ==
    /\ calc.phase = "input"
    /\ calc.checks /\ calculate_size_overflows(calc.size, calc.align)
    /\ calc' = [calc EXCEPT !.phase = "overflow_panic", !.wrapped = TRUE]
    /\ UNCHANGED dispatchVars

NextCalc == CalcValue \/ CalcOverflowPanic

SpecCalc == InitCalc /\ [][NextCalc]_vars

(* ------------------------------ properties ---------------------------- *)

\* Adjusted Size: the smallest multiple of align that is >= size
AdjustedSize(size, align) == ((size + align - 1) \div align) * align

SlotOf(op) ==
    CASE op = "alloc" -> "RedisModule_Alloc"
      [] op = "alloc_zeroed" -> "RedisModule_Calloc"
      [] op = "dealloc" -> "RedisModule_Free"
      [] op = "realloc" -> "RedisModule_Realloc"

InCall(t) == pc[t] # "idle"
InHostPath(t) == pc[t] \in {"host", "returned"}
InAbortPath(t) == pc[t] \in {"panic", "wrote", "aborted"}
PanicEntered == \E t \in Threads : InAbortPath(t)

RECURSIVE SumWrites(_)
SumWrites(T) ==
    IF T = {} THEN 0
    ELSE LET t == CHOOSE x \in T : TRUE IN writes[t] + SumWrites(T \ {t})

TotalWrites == SumWrites(Threads)

\* C1: for every size and power-of-two align whose round-up fits the word
\* (size <= 2^W - align, every valid Layout included), the value calculate_size
\* returns is the smallest multiple of align that is >= size: result mod
\* align = 0 and size <= result < size + align; and (5,8)->8, (16,8)->16,
\* (1,1)->1, (17,16)->32.
C1_RoundsUpToAlignment ==
    /\ (calc.phase = "done" /\ calc.size <= WordMod - calc.align) =>
          /\ calc.result % calc.align = 0
          /\ calc.size <= calc.result
          /\ calc.result < calc.size + calc.align
          /\ \A m \in calc.size .. calc.result :
                m % calc.align = 0 => m = calc.result
    /\ (calc.phase = "done" /\ calc.size = 5 /\ calc.align = 8) => calc.result = 8
    /\ (calc.phase = "done" /\ calc.size = 16 /\ calc.align = 8) => calc.result = 16
    /\ (calc.phase = "done" /\ calc.size = 1 /\ calc.align = 1) => calc.result = 1
    /\ (calc.phase = "done" /\ calc.size = 17 /\ calc.align = 16) => calc.result = 32

C1_Witness ==
    /\ calc.phase = "done" /\ calc.checks
    /\ calc.size = 17 /\ calc.align = 16 /\ calc.result = 32

\* C2: with RedisModule_Alloc present, alloc invokes that function exactly
\* once, with the single argument Adjusted Size(size, align), invokes no other
\* host function, and returns the host's result unmodified, null included.
C2_AllocForwardsOnce ==
    \A t \in Threads :
        (InCall(t) /\ call[t].op = "alloc" /\ RedisModule["RedisModule_Alloc"]) =>
            /\ InHostPath(t)
            /\ hostInv[t] = << [fn |-> "RedisModule_Alloc",
                                args |-> <<AdjustedSize(call[t].size, call[t].align)>>] >>
            /\ pc[t] = "returned" => (ret[t] = hostRes[t] /\ ret[t] # NoVal)

C2_Witness ==
    \E t \in Threads :
        /\ pc[t] = "returned" /\ call[t].op = "alloc"
        /\ call[t].size = 3 /\ call[t].align = 2
        /\ hostInv[t][1].args = <<4>>
        /\ ret[t] = NULL

\* C3 as stated: a call whose slot is absent never returns a value, invokes
\* no host function, and when the process has been terminated it has written
\* the diagnostic exactly once, whether that write succeeded or failed.
C3_AbsentCallWroteOnce ==
    \A t \in Threads :
        (InCall(t) /\ ~RedisModule[SlotOf(call[t].op)]) =>
            /\ InAbortPath(t)
            /\ hostInv[t] = <<>>
            /\ ret[t] = NoVal
            /\ terminated => writes[t] = 1

\* C3 as amended: a call whose slot is absent never returns a value, invokes
\* no host function, writes the diagnostic at most once and exactly once
\* before it reaches abort (whether that write succeeded or failed), and the
\* process is eventually terminated; a call that another thread's abort
\* overtakes before its write has written nothing.
C3_AbsentSlotIsFatal ==
    /\ [](\A t \in Threads :
            (InCall(t) /\ ~RedisModule[SlotOf(call[t].op)]) =>
                /\ InAbortPath(t)
                /\ hostInv[t] = <<>>
                /\ ret[t] = NoVal
                /\ writes[t] = (IF pc[t] = "panic" THEN 0 ELSE 1)
                /\ pc[t] = "aborted" => terminated)
    /\ \A t \in Threads : (pc[t] = "panic") ~> terminated

C3_Witness ==
    \E t \in Threads :
        /\ pc[t] = "aborted" /\ terminated
        /\ ~RedisModule[SlotOf(call[t].op)]
        /\ writes[t] = 1 /\ stderr = 0

\* C4: with RedisModule_Realloc present, realloc invokes that function exactly
\* once with the same pointer and Adjusted Size(new_size, layout.align), never
\* a size taken from layout.size, and returns the host's result unmodified.
C4_ReallocUsesNewSize ==
    \A t \in Threads :
        (InCall(t) /\ call[t].op = "realloc" /\ RedisModule["RedisModule_Realloc"]) =>
            /\ InHostPath(t)
            /\ hostInv[t] = << [fn |-> "RedisModule_Realloc",
                                args |-> <<call[t].ptr,
                                           AdjustedSize(call[t].new_size, call[t].align)>>] >>
            /\ pc[t] = "returned" => (ret[t] = hostRes[t] /\ ret[t] # NoVal)

C4_Witness ==
    \E t \in Threads :
        /\ pc[t] = "returned" /\ call[t].op = "realloc"
        /\ call[t].size = 1 /\ call[t].align = 4 /\ call[t].new_size = 3
        /\ call[t].ptr = "p1"
        /\ hostInv[t][1].args = <<"p1", 4>>
        /\ ret[t] = "p2"

\* C5: with RedisModule_Calloc present, alloc_zeroed invokes that function
\* exactly once with count 1 and element size Adjusted Size(size, align), and
\* returns the host's result unmodified.
C5_AllocZeroedOneUnit ==
    \A t \in Threads :
        (InCall(t) /\ call[t].op = "alloc_zeroed" /\ RedisModule["RedisModule_Calloc"]) =>
            /\ InHostPath(t)
            /\ hostInv[t] = << [fn |-> "RedisModule_Calloc",
                                args |-> <<1, AdjustedSize(call[t].size, call[t].align)>>] >>
            /\ hostInv[t][1].args[1] * hostInv[t][1].args[2]
                  = AdjustedSize(call[t].size, call[t].align)
            /\ pc[t] = "returned" => (ret[t] = hostRes[t] /\ ret[t] # NoVal)

C5_Witness ==
    \E t \in Threads :
        /\ pc[t] = "returned" /\ call[t].op = "alloc_zeroed"
        /\ call[t].size = 3 /\ call[t].align = 4
        /\ hostInv[t][1].args = <<1, 4>>
        /\ ret[t] = "p1"

\* C6: when the host function of alloc, alloc_zeroed or realloc returns null,
\* the call returns null and did nothing else: the host function was invoked
\* once, no other host function (no free of the original block) was invoked,
\* and the abort path was not entered.
C6_NullPassedThrough ==
    \A t \in Threads :
        (pc[t] = "returned" /\ hostRes[t] = NULL) =>
            /\ call[t].op \in {"alloc", "alloc_zeroed", "realloc"}
            /\ ret[t] = NULL
            /\ Len(hostInv[t]) = 1
            /\ hostInv[t][1].fn = SlotOf(call[t].op)
            /\ writes[t] = 0
            /\ ~InAbortPath(t)

C6_Witness ==
    \E t \in Threads :
        /\ pc[t] = "returned" /\ call[t].op = "realloc"
        /\ hostRes[t] = NULL /\ ret[t] = NULL
        /\ RedisModule["RedisModule_Free"]

\* C7 as stated: whenever the process has been terminated through the abort
\* path, exactly one write of the diagnostic was made, also when several
\* threads are in the abort path concurrently.
C7_ExactlyOneCopy == terminated => TotalWrites = 1

\* C7 as amended: at termination every caller in the abort path has written
\* the diagnostic at most once and the caller that aborted exactly once, so
\* between one and as many writes were made as callers entered the abort path.
C7_OneCopyPerAbortingCaller ==
    terminated =>
        /\ \A t \in Threads : writes[t] <= 1
        /\ \A t \in Threads : writes[t] = 1 => InAbortPath(t)
        /\ \A t \in Threads : pc[t] = "aborted" => writes[t] = 1
        /\ \E t \in Threads : pc[t] = "aborted"
        /\ TotalWrites >= 1
        /\ TotalWrites <= Cardinality({t \in Threads : InAbortPath(t)})
        /\ stderr <= TotalWrites

C7_Witness == terminated /\ TotalWrites = 2 /\ stderr = 2

\* C8 as stated: once any caller has entered the abort path, no caller
\* invokes a host function afterwards.
C8_NoHostCallAfterPanicEntered ==
    [][PanicEntered => \A t \in Threads : (pc'[t] = "host" => pc[t] = "host")]_vars

\* C8 as amended: a caller that has entered the abort path stays in it and
\* invokes no host function afterwards; no step of any caller follows the
\* termination; and once the abort path is entered the process is eventually
\* terminated.
C8_AbortPathIsTerminal ==
    /\ [][/\ ~terminated
          /\ \A t \in Threads :
                InAbortPath(t) =>
                    /\ pc'[t] \in {"panic", "wrote", "aborted"}
                    /\ hostInv'[t] = hostInv[t]]_vars
    /\ PanicEntered ~> terminated

C8_Witness ==
    \E t, u \in Threads :
        /\ pc[t] = "aborted" /\ terminated
        /\ pc[u] = "host" /\ Len(hostInv[u]) = 1

\* C9: each operation consults only its own slot: in every one of the 16
\* tables a call is in the abort path iff its own slot is absent, and when the
\* slot is present it invokes that slot's function and no other; dealloc
\* passes the pointer alone.
C9_OwnSlotOnly ==
    \A t \in Threads :
        InCall(t) =>
            LET present == RedisModule[SlotOf(call[t].op)] IN
            /\ InAbortPath(t) <=> ~present
            /\ InHostPath(t) <=> present
            /\ present =>
                  /\ Len(hostInv[t]) = 1
                  /\ hostInv[t][1].fn = SlotOf(call[t].op)
                  /\ call[t].op = "dealloc" => hostInv[t][1].args = <<call[t].ptr>>
            /\ ~present => hostInv[t] = <<>>

C9_Witness ==
    \E t \in Threads :
        /\ pc[t] = "returned" /\ call[t].op = "dealloc"
        /\ call[t].size = 3 /\ call[t].align = 4
        /\ RedisModule = [s \in SlotNames |-> s = "RedisModule_Free"]

\* C10 as stated: for every size <= 2^W - align no step of calculate_size
\* wraps, and the result is the exact round-up, >= size.
C10_NoWrapUpToLimit ==
    (calc.phase \in {"done", "overflow_panic"} /\ calc.size <= WordMod - calc.align) =>
        /\ ~calc.wrapped
        /\ calc.phase = "done"
        /\ calc.result = AdjustedSize(calc.size, calc.align)
        /\ calc.result >= calc.size

\* C10 as amended: for every size < 2^W - align (size + align <= 2^W - 1) no
\* step of calculate_size wraps, and the result is the exact round-up, >= size;
\* this covers every layout whose rounded-up size is at most 2^(W-1) - 1.
C10_NoWrapBelowLimit ==
    /\ (calc.phase \in {"done", "overflow_panic"} /\ calc.size < WordMod - calc.align) =>
          /\ ~calc.wrapped
          /\ calc.phase = "done"
          /\ calc.result = AdjustedSize(calc.size, calc.align)
          /\ calc.result >= calc.size
    /\ (calc.phase # "off" /\ LayoutOK(calc.size, calc.align)) =>
          calc.size < WordMod - calc.align

C10_Witness ==
    /\ calc.phase = "done" /\ calc.checks /\ ~calc.wrapped
    /\ calc.align = 8 /\ calc.size = WordMod - 9
    /\ calc.result = WordMod - 8

====
